---- MODULE Spec2Model ----
(***************************************************************************)
(* The encrypted vault of zenik_tool.py: vault_unlock, the vault_menu loop *)
(* with its idle check, the add / delete / search / copy handlers, the     *)
(* Fernet-encrypted vault file and the clipboard helpers.                  *)
(*                                                                         *)
(* Text is a sequence of one-character strings, so that strip(), split(),  *)
(* lower(), isdigit() and int() are computed as Python computes them.      *)
(* An optional value is the empty sequence (None) or a one-element         *)
(* sequence; a file is <<>> when it does not exist, <<content>> otherwise. *)
(* Time is in seconds.                                                     *)
(***************************************************************************)
EXTENDS Integers, Sequences, FiniteSets, TLC

\* ------------------------------------------------------------ bounds
MaxTime == 60        \* the clock stops advancing here
MaxItems == 2        \* adds are accepted up to this collection length
MaxLen == 3          \* the longest text given to mask_secret and parse_tags on their own

\* ------------------------------------------------------------ inputs
TimeSteps == {60}
MasterInputs == {<<>>, <<"p">>, <<"q">>}
NoteTitleInputs == {<<" ">>, <<" ", "a">>}
LoginTitleInputs == {<<>>, <<"b">>}
ValueInputs == {<<" ">>, <<"v", " ">>}
UserInputs == {<<>>, <<"u">>}
SecretInputs == {<<" ">>, <<"s", "e", "c">>}
UrlInputs == {<<>>}
NoteInputs == {<<>>}
TagInputs == {<<>>, <<"W", ",", " ", "w">>}
PickInputs == {<<>>, <<"x">>, <<"0">>, <<"1">>, <<"0", "2">>, <<"3">>}
SubChoices == {<<"1">>, <<"2">>, <<"3">>, <<"4">>, <<"5">>, <<"0">>}
QueryInputs == {<<" ">>, <<"B">>, <<"t">>}
FilterInputs == {<<>>, <<"W">>}
ExtTexts == {<<"o">>}
ClearSecondsValues == {60}

\* ------------------------------------------------------------ Python
None == <<>>
Some(x) == <<x>>

Digits == <<"0", "1", "2", "3", "4", "5", "6", "7", "8", "9">>

RECURSIVE lstrip(_)
lstrip(s) == IF s # <<>> /\ Head(s) = " " THEN lstrip(Tail(s)) ELSE s

RECURSIVE rstrip(_)
rstrip(s) ==
  IF s # <<>> /\ s[Len(s)] = " " THEN rstrip(SubSeq(s, 1, Len(s) - 1)) ELSE s

strip(s) == lstrip(rstrip(s))

LowerChar(c) ==
  CASE c = "A" -> "a"
    [] c = "B" -> "b"
    [] c = "T" -> "t"
    [] c = "W" -> "w"
    [] OTHER -> c

lower(s) == [i \in 1..Len(s) |-> LowerChar(s[i])]

replace(s, old, new) == [i \in 1..Len(s) |-> IF s[i] = old THEN new ELSE s[i]]

\* str.split() with no argument: the maximal runs of non-blank characters
RECURSIVE split(_, _, _)
split(s, word, acc) ==
  IF s = <<>> THEN (IF word = <<>> THEN acc ELSE Append(acc, word))
  ELSE IF Head(s) = " "
       THEN split(Tail(s), <<>>, IF word = <<>> THEN acc ELSE Append(acc, word))
       ELSE split(Tail(s), Append(word, Head(s)), acc)

isdigit(s) ==
  /\ s # <<>>
  /\ \A i \in 1..Len(s) : \E d \in 1..10 : Digits[d] = s[i]

DigitValue(c) == (CHOOSE d \in 1..10 : Digits[d] = c) - 1

RECURSIVE int(_)
int(s) == IF s = <<>> THEN 0 ELSE 10 * int(SubSeq(s, 1, Len(s) - 1)) + DigitValue(s[Len(s)])

Contains(seq, x) == \E i \in 1..Len(seq) : seq[i] = x

\* q in blob
IsSubstring(q, blob) ==
  \E k \in 0..(Len(blob) - Len(q)) : SubSeq(blob, k + 1, k + Len(q)) = q

RECURSIVE Flatten(_)
Flatten(ss) == IF ss = <<>> THEN <<>> ELSE Head(ss) \o Flatten(Tail(ss))

\* ------------------------------------------------------------ vault helpers
vault_autolock_minutes(cfg) == IF cfg.vault_autolock_minutes > 1 THEN cfg.vault_autolock_minutes ELSE 1

vault_autolock_check(cfg, t, last_activity_ts) ==
  (t - last_activity_ts) >= (vault_autolock_minutes(cfg) * 60)

\* PBKDF2-HMAC-SHA256 as an ideal key derivation: the key names its inputs
derive_key_from_password(password, salt) == [password |-> password, salt |-> salt]

\* Fernet: a token opens under the key that made it and under no other
InvalidToken == [ok |-> FALSE, err |-> "InvalidToken"]
fernet_encrypt(key, raw, iv) == [key |-> key, iv |-> iv, raw |-> raw]
\* a decryption that does not authenticate the token
fernet_decrypt_any(key, token) == [ok |-> TRUE, raw |-> token.raw]

fernet_decrypt(key, token) ==
  IF token.key = key THEN [ok |-> TRUE, raw |-> token.raw] ELSE InvalidToken

\* json.dumps / json.loads: an object is the list of its (key, value) pairs
Keys == <<"type", "title", "username", "password", "url", "note", "value", "tags", "created_at">>

dumps_item(it) ==
  LET ks == SelectSeq(Keys, LAMBDA k : k \in DOMAIN it)
  IN  [i \in 1..Len(ks) |-> <<ks[i], it[ks[i]]>>]

loads_item(ps) ==
  [k \in {ps[i][1] : i \in 1..Len(ps)} |->
      ps[CHOOSE i \in 1..Len(ps) : ps[i][1] = k][2]]

\* the item list saved without its enclosing {"items": ...} object
json_dumps_bare(data) ==
  << <<"list", [i \in 1..Len(data.items) |-> dumps_item(data.items[i])]>> >>

json_dumps(data) ==
  << <<"items", [i \in 1..Len(data.items) |-> dumps_item(data.items[i])]>> >>

json_loads(raw) ==
  [k \in {raw[i][1] : i \in 1..Len(raw)} |->
      LET v == raw[CHOOSE i \in 1..Len(raw) : raw[i][1] = k][2]
      IN  [j \in 1..Len(v) |-> loads_item(v[j])]]

EmptyData == [items |-> <<>>]

\* a load without the os.path.exists branch: a missing file is an error
vault_load_strict(fernet, file) ==
  IF file = <<>> THEN [ok |-> FALSE, err |-> "FileNotFoundError"]
  ELSE LET r == fernet_decrypt(fernet, file[1])
       IN  IF ~r.ok THEN InvalidToken
           ELSE LET d == json_loads(r.raw)
                IN  IF "items" \notin DOMAIN d
                    THEN [ok |-> TRUE, data |-> EmptyData]
                    ELSE [ok |-> TRUE, data |-> d]

\* a load that treats a token it cannot open as an empty vault
vault_load_lenient(fernet, file) ==
  IF file = <<>> THEN [ok |-> TRUE, data |-> EmptyData]
  ELSE LET r == fernet_decrypt(fernet, file[1])
       IN  IF ~r.ok THEN [ok |-> TRUE, data |-> EmptyData]
           ELSE [ok |-> TRUE, data |-> json_loads(r.raw)]

vault_load(fernet, file) ==
  IF file = <<>> THEN [ok |-> TRUE, data |-> EmptyData]
  ELSE LET r == fernet_decrypt(fernet, file[1])
       IN  IF ~r.ok THEN InvalidToken
           ELSE LET d == json_loads(r.raw)
                IN  IF "items" \notin DOMAIN d
                    THEN [ok |-> TRUE, data |-> EmptyData]
                    ELSE [ok |-> TRUE, data |-> d]

\* a save under a key derived again from the password, without the stored salt
vault_save_rekey(fernet, data, iv) ==
  <<fernet_encrypt(derive_key_from_password(fernet.password, <<>>), json_dumps(data), iv)>>

vault_save(fernet, data, iv) == <<fernet_encrypt(fernet, json_dumps(data), iv)>>

\* a mask that leaves texts of up to two characters as they are
mask_secret_short(s) ==
  IF Len(s) <= 2 THEN s
  ELSE SubSeq(s, 1, 2) \o [i \in 1..(Len(s) - 2) |-> "*"]

mask_secret(s) ==
  IF s = <<>> THEN <<>>
  ELSE IF Len(s) <= 2 THEN [i \in 1..Len(s) |-> "*"]
  ELSE SubSeq(s, 1, 2) \o [i \in 1..(Len(s) - 2) |-> "*"]

RECURSIVE parse_tags_loop(_, _)
parse_tags_loop(raw, tags) ==
  IF raw = <<>> THEN tags
  ELSE LET t == lower(strip(Head(raw)))
       IN  parse_tags_loop(Tail(raw),
             IF t # <<>> /\ ~Contains(tags, t) THEN Append(tags, t) ELSE tags)

\* parse_tags without the replacement of the commas
parse_tags_commas(s) == parse_tags_loop(split(s, <<>>, <<>>), <<>>)

parse_tags(s) == parse_tags_loop(split(replace(s, ",", " "), <<>>, <<>>), <<>>)

\* format_tags: ", ".join(tags)
RECURSIVE format_tags(_)
format_tags(tags) ==
  IF tags = <<>> THEN <<>>
  ELSE IF Len(tags) = 1 THEN tags[1]
  ELSE tags[1] \o <<",", " ">> \o format_tags(Tail(tags))

vault_pick_item(items, input) ==
  LET s == strip(input)
  IN  IF items = <<>> THEN None
      ELSE IF ~isdigit(s) THEN None
      ELSE IF 1 <= int(s) /\ int(s) <= Len(items) THEN Some(int(s) - 1)
      ELSE None

\* list.pop() without its argument: the last element goes
pop_last(items, idx) == SubSeq(items, 1, Len(items) - 1)

pop(items, idx) == SubSeq(items, 1, idx) \o SubSeq(items, idx + 2, Len(items))


RECURSIVE now_str(_)
now_str(t) == IF t < 10 THEN <<Digits[t + 1]>> ELSE now_str(t \div 10) \o <<Digits[(t % 10) + 1]>>

NOTE == <<"n", "o", "t", "e">>
LOGIN == <<"l", "o", "g", "i", "n">>

note_item(title, value, tags, t) ==
  [type |-> NOTE, title |-> title, value |-> value, tags |-> tags, created_at |-> now_str(t)]

login_item(title, username, password, url, note, tags, t) ==
  [type |-> LOGIN, title |-> title, username |-> username, password |-> password,
   url |-> url, note |-> note, tags |-> tags, created_at |-> now_str(t)]

\* the text json.dumps(it) produces, as far as a search can see it
KeyText(k) ==
  CASE k = "type" -> <<"t", "y", "p", "e">>
    [] k = "title" -> <<"t", "i", "t", "l", "e">>
    [] k = "username" -> <<"u", "s", "e", "r", "n", "a", "m", "e">>
    [] k = "password" -> <<"p", "a", "s", "s", "w", "o", "r", "d">>
    [] k = "url" -> <<"u", "r", "l">>
    [] k = "note" -> <<"n", "o", "t", "e">>
    [] k = "value" -> <<"v", "a", "l", "u", "e">>
    [] k = "tags" -> <<"t", "a", "g", "s">>
    [] OTHER -> <<"c", "r", "e", "a", "t", "e", "d", "_", "a", "t">>

Quoted(s) == <<"\"">> \o s \o <<"\"">>

item_text(it) ==
  LET ps == dumps_item(it)
  IN  Flatten([i \in 1..Len(ps) |->
        Quoted(KeyText(ps[i][1])) \o <<":">> \o
        (IF ps[i][1] = "tags"
         THEN <<"[">> \o Flatten([j \in 1..Len(ps[i][2]) |-> Quoted(ps[i][2][j])]) \o <<"]">>
         ELSE Quoted(ps[i][2]))])

\* a search that lower-cases the item text but not the query
vault_search_cased(items, input) ==
  LET q == strip(input)
  IN  IF q = <<>> THEN <<>>
      ELSE SelectSeq(items, LAMBDA it : IsSubstring(q, lower(item_text(it))))

vault_search(items, input) ==
  LET q == lower(strip(input))
  IN  IF q = <<>> THEN <<>>
      ELSE SelectSeq(items, LAMBDA it : IsSubstring(q, lower(item_text(it))))

\* what vault_view_items prints: number, type, title and the secret line
view_line(i, it) ==
  [n |-> i, type |-> it.type, title |-> it.title,
   secret |-> IF it.type = LOGIN THEN mask_secret(it.password) ELSE it.value]

vault_view_items(items, tag_filter) ==
  LET idx == SelectSeq([i \in 1..Len(items) |-> i],
                       LAMBDA i : tag_filter = <<>> \/ Contains(items[i].tags, tag_filter))
  IN  [k \in 1..Len(idx) |-> view_line(idx[k], items[idx[k]])]

clear_seconds(cfg) ==
  IF cfg.vault_clipboard_clear_seconds = 0 THEN 20 ELSE cfg.vault_clipboard_clear_seconds

\* ------------------------------------------------------------ state
VARIABLES
  pc,             \* "Locked" outside vault_menu, else the line the loop waits at
  f,              \* the Fernet key object vault_menu holds, None when locked
  data,           \* the collection loaded for this iteration, None when locked
  last_activity,  \* vault_menu's last_activity
  now,            \* time.time()
  vaultFile,      \* zenik_vault.bin
  saltFile,       \* zenik_vault.salt
  iv,             \* the IV of the next Fernet token: never that of the token it replaces
  nSalts,         \* salts drawn from os.urandom so far (each is fresh)
  clipboard,      \* the OS clipboard
  CLIPBOARD_OK,   \* pyperclip imported
  CONFIG,         \* the two vault settings
  text,           \* clip_copy_autoclear's text while it sleeps
  cur,            \* clip_copy_autoclear's cur
  pw,             \* what was typed at the last master password prompt
  choice,         \* what was typed at the last vault menu prompt
  typed,          \* what was typed at the prompts of the last handler, in order
  msg,            \* the last message printed
  screen          \* the listing printed by the last handler

vars == <<pc, f, data, last_activity, now, vaultFile, saltFile, iv, nSalts, clipboard,
          CLIPBOARD_OK, CONFIG, text, cur, pw, choice, typed, msg, screen>>

fileVars == <<vaultFile, saltFile, iv, nSalts>>
clipVars == <<clipboard, text, cur>>
envVars == <<CLIPBOARD_OK, CONFIG>>

Init ==
  /\ pc = "Locked"
  /\ f = None
  /\ data = None
  /\ last_activity = 0
  /\ now = 0
  /\ vaultFile = <<>>
  /\ saltFile = <<>>
  /\ iv = 0
  /\ nSalts = 0
  /\ clipboard = <<>>
  /\ CLIPBOARD_OK \in BOOLEAN
  /\ CONFIG \in [vault_autolock_minutes : {1}, vault_clipboard_clear_seconds : ClearSecondsValues]
  /\ text = <<>>
  /\ cur = None
  /\ pw = <<>>
  /\ choice = ""
  /\ typed = <<>>
  /\ msg = "start"
  /\ screen = <<>>

\* ------------------------------------------------------------ environment
\* time passes while the program waits at a prompt
Tick ==
  /\ pc \in {"Locked", "Menu", "Pause"}
  /\ \E d \in TimeSteps : now + d <= MaxTime /\ now' = now + d
  /\ UNCHANGED <<pc, f, data, last_activity, fileVars, clipVars, envVars, pw, choice, typed, msg, screen>>

\* the user copies something else while clip_copy_autoclear sleeps or compares
ExternalCopy ==
  /\ pc \in {"Sleep", "Pasted"}
  /\ \E t \in ExtTexts : clipboard' = t
  /\ UNCHANGED <<pc, f, data, last_activity, now, fileVars, text, cur, envVars, pw, choice, typed, msg, screen>>

\* ------------------------------------------------------------ vault_unlock
\* os.urandom(k): k bytes, a value never drawn before
urandom(k, n) == [i \in 1..k |-> n + 1]

\* vault_get_or_create_salt without the os.path.exists branch
vault_get_or_create_salt_fresh(file, n) == urandom(16, n)

vault_get_or_create_salt(file, n) == IF file # <<>> THEN file[1] ELSE urandom(16, n)

\* vault_menu line 1164-1167 with the whole of vault_unlock
Unlock ==
  /\ pc = "Locked"
  /\ \E master \in MasterInputs :
       LET salt == vault_get_or_create_salt(saltFile, nSalts)
           key == derive_key_from_password(master, salt)
           r == vault_load(key, vaultFile)
       IN  /\ saltFile' = Some(salt)
           /\ nSalts' = IF saltFile = <<>> THEN nSalts + 1 ELSE nSalts
           /\ pw' = master
           /\ IF master = <<>>
              THEN /\ msg' = "unlock cancelled"
                   /\ UNCHANGED <<pc, f, last_activity>>
              ELSE IF r.ok
              THEN /\ f' = Some(key)
                   /\ last_activity' = now
                   /\ pc' = "Top"
                   /\ msg' = "unlocked"
              ELSE /\ msg' = "Wrong master password (or vault corrupted)."
                   /\ UNCHANGED <<pc, f, last_activity>>
  /\ screen' = <<>>
  /\ UNCHANGED <<data, now, vaultFile, iv, clipVars, envVars, choice, typed>>

\* vault_menu line 1168-1191: the handler's pause() has returned (or the
\* handler had none); the idle check, then the load and the menu
LoopTop ==
  /\ pc \in {"Top", "Pause"}
  /\ IF vault_autolock_check(CONFIG, now, last_activity)
     THEN /\ pc' = "Locked"
          /\ f' = None
          /\ data' = None
          /\ msg' = "Auto-locked"
     ELSE LET r == vault_load(f[1], vaultFile)
          IN  IF r.ok
              THEN /\ data' = Some(r.data)
                   /\ pc' = "Menu"
                   /\ msg' = "menu"
                   /\ f' = f
              ELSE /\ pc' = "Crashed"
                   /\ f' = None
                   /\ data' = None
                   /\ msg' = "InvalidToken"
  /\ screen' = <<>>
  /\ pw' = <<>>
  /\ choice' = ""
  /\ typed' = <<>>
  /\ text' = <<>>
  /\ cur' = None
  /\ UNCHANGED <<last_activity, now, fileVars, clipboard, envVars>>

\* ------------------------------------------------------------ clipboard
\* the clipboard after clip_copy(t)
clip_copy(ok, clip, t) == IF ok THEN t ELSE clip

\* the same message whether or not the clipboard is there
clip_msg_silent(ok) == "Copied to clipboard."

clip_msg(ok) == IF ok THEN "Copied to clipboard." ELSE "Clipboard not available."

\* clip_copy_autoclear with the test of the delay as seconds >= 0
autoclear_waits_ge(ok, seconds) == ok /\ seconds >= 0

\* clip_copy_autoclear line 401 and 407: the call goes on to sleep and compare
autoclear_waits(ok, seconds) == ok /\ seconds # 0 /\ seconds > 0

\* ------------------------------------------------------------ vault_menu
\* line 1192-1193: the choice is read, then last_activity is refreshed
Chosen(c) ==
  /\ pc = "Menu"
  /\ choice' = c
  /\ last_activity' = now

items == data[1].items

\* choice 1
ViewItems ==
  /\ Chosen("1")
  /\ typed' = <<>>
  /\ screen' = vault_view_items(items, <<>>)
  /\ msg' = IF screen' = <<>> THEN "No matching items." ELSE "view"
  /\ pc' = "Pause"
  /\ UNCHANGED <<f, data, now, fileVars, clipVars, envVars, pw>>

\* choice 2
ViewByTag ==
  /\ Chosen("2")
  /\ \E tagIn \in FilterInputs :
       LET tag == lower(strip(tagIn))
       IN  /\ typed' = <<tagIn>>
           /\ IF tag # <<>>
              THEN /\ screen' = vault_view_items(items, tag)
                   /\ msg' = IF screen' = <<>> THEN "No matching items." ELSE "view by tag"
              ELSE /\ screen' = <<>>
                   /\ msg' = "Cancelled."
  /\ pc' = "Pause"
  /\ UNCHANGED <<f, data, now, fileVars, clipVars, envVars, pw>>

\* vault_add_note with insert(0, ...) in place of append(...)
vault_add_note_front(its, titleIn, valueIn, tagsIn, t) ==
  LET title == strip(titleIn)
      value == rstrip(valueIn)
      tags == parse_tags(strip(tagsIn))
  IN  IF title = <<>> \/ value = <<>> THEN None
      ELSE Some(<<note_item(title, value, tags, t)>> \o its)

\* vault_add_note: the collection after the call, or None when it returns False
vault_add_note(its, titleIn, valueIn, tagsIn, t) ==
  LET title == strip(titleIn)
      value == rstrip(valueIn)
      tags == parse_tags(strip(tagsIn))
  IN  IF title = <<>> \/ value = <<>> THEN None
      ELSE Some(Append(its, note_item(title, value, tags, t)))

\* vault_add_login without the check of the password field
vault_add_login_nocheck(its, titleIn, userIn, secretIn, urlIn, noteIn, tagsIn, t) ==
  LET title == strip(titleIn)
      username == strip(userIn)
      password == strip(secretIn)
      url == strip(urlIn)
      note == strip(noteIn)
      tags == parse_tags(strip(tagsIn))
  IN  IF title = <<>> \/ username = <<>> THEN None
      ELSE Some(Append(its, login_item(title, username, password, url, note, tags, t)))

\* vault_add_login: the collection after the call, or None when it returns False
vault_add_login(its, titleIn, userIn, secretIn, urlIn, noteIn, tagsIn, t) ==
  LET title == strip(titleIn)
      username == strip(userIn)
      password == strip(secretIn)
      url == strip(urlIn)
      note == strip(noteIn)
      tags == parse_tags(strip(tagsIn))
  IN  IF title = <<>> \/ username = <<>> \/ password = <<>> THEN None
      ELSE Some(Append(its, login_item(title, username, password, url, note, tags, t)))

\* choices 3 and 4 without the vault_save call
AddDone_NoSave(added, okMsg, badMsg) ==
  /\ IF added # None
     THEN /\ data' = Some([items |-> added[1]])
          /\ msg' = okMsg
     ELSE /\ msg' = badMsg
          /\ UNCHANGED data
  /\ UNCHANGED <<vaultFile, iv>>
  /\ screen' = <<>>
  /\ pc' = "Pause"
  /\ UNCHANGED <<f, now, saltFile, nSalts, clipVars, envVars, pw>>

\* the tail of choices 3 and 4: save when the add returned True
AddDone(added, okMsg, badMsg) ==
  /\ IF added # None
     THEN /\ data' = Some([items |-> added[1]])
          /\ vaultFile' = vault_save(f[1], data'[1], iv)
          /\ iv' = 1 - iv
          /\ msg' = okMsg
     ELSE /\ msg' = badMsg
          /\ UNCHANGED <<data, vaultFile, iv>>
  /\ screen' = <<>>
  /\ pc' = "Pause"
  /\ UNCHANGED <<f, now, saltFile, nSalts, clipVars, envVars, pw>>

\* choice 3
AddNote ==
  /\ Chosen("3")
  /\ Len(items) < MaxItems
  /\ \E titleIn \in NoteTitleInputs, valueIn \in ValueInputs, tagsIn \in TagInputs :
       /\ typed' = <<titleIn, valueIn, tagsIn>>
       /\ AddDone(vault_add_note(items, titleIn, valueIn, tagsIn, now),
                  "added NOTE", "Cancelled (title & text required).")

\* choice 4
AddLogin ==
  /\ Chosen("4")
  /\ Len(items) < MaxItems
  /\ \E titleIn \in LoginTitleInputs, userIn \in UserInputs, secretIn \in SecretInputs,
        urlIn \in UrlInputs, noteIn \in NoteInputs, tagsIn \in {<<>>} :
       /\ typed' = <<titleIn, userIn, secretIn, urlIn, noteIn, tagsIn>>
       /\ AddDone(vault_add_login(items, titleIn, userIn, secretIn, urlIn, noteIn, tagsIn, now),
                  "added LOGIN", "Cancelled (title, username, password required).")

\* choice 5 with the vault_save call after the if / else instead of inside it
Delete_SaveOnCancel ==
  /\ Chosen("5")
  /\ \E pick \in PickInputs :
       LET idx == vault_pick_item(items, pick)
       IN  IF items = <<>>
           THEN /\ msg' = "No items to delete."
                /\ typed' = <<>>
                /\ UNCHANGED <<data, vaultFile, iv>>
           ELSE IF idx = None
           THEN /\ msg' = "Cancelled."
                /\ typed' = <<pick>>
                /\ vaultFile' = vault_save(f[1], data[1], iv)
                /\ iv' = 1 - iv
                /\ UNCHANGED data
           ELSE /\ typed' = <<pick>>
                /\ data' = Some([items |-> pop(items, idx[1])])
                /\ vaultFile' = vault_save(f[1], data'[1], iv)
                /\ iv' = 1 - iv
                /\ msg' = "Deleted"
  /\ screen' = <<>>
  /\ pc' = "Pause"
  /\ UNCHANGED <<f, now, saltFile, nSalts, clipVars, envVars, pw>>

\* choice 5
Delete ==
  /\ Chosen("5")
  /\ \E pick \in PickInputs :
       LET idx == vault_pick_item(items, pick)
       IN  IF items = <<>>
           THEN /\ msg' = "No items to delete."
                /\ typed' = <<>>
                /\ UNCHANGED <<data, vaultFile, iv>>
           ELSE IF idx = None
           THEN /\ msg' = "Cancelled."
                /\ typed' = <<pick>>
                /\ UNCHANGED <<data, vaultFile, iv>>
           ELSE /\ typed' = <<pick>>
                /\ data' = Some([items |-> pop(items, idx[1])])
                /\ vaultFile' = vault_save(f[1], data'[1], iv)
                /\ iv' = 1 - iv
                /\ msg' = "Deleted"
  /\ screen' = <<>>
  /\ pc' = "Pause"
  /\ UNCHANGED <<f, now, saltFile, nSalts, clipVars, envVars, pw>>

\* choice 6
Search ==
  /\ Chosen("6")
  /\ \E q \in QueryInputs :
       /\ typed' = <<q>>
       /\ screen' = vault_view_items(vault_search(items, q), <<>>)
  /\ msg' = IF screen' = <<>> THEN "No matching items." ELSE "Results"
  /\ pc' = "Pause"
  /\ UNCHANGED <<f, data, now, fileVars, clipVars, envVars, pw>>

\* choice 7: vault_copy_menu
CopyMenu ==
  /\ Chosen("7")
  /\ \E pick \in PickInputs, c \in SubChoices :
       LET idx == vault_pick_item(items, pick)
           it == items[idx[1] + 1]
           clear_s == clear_seconds(CONFIG)
           Copy(t) == /\ clipboard' = clip_copy(CLIPBOARD_OK, clipboard, t)
                      /\ msg' = clip_msg(CLIPBOARD_OK)
                      /\ screen' = <<>>
                      /\ pc' = "Pause"
                      /\ UNCHANGED <<text, cur>>
       IN  /\ typed' = IF items = <<>> THEN <<>>
                       ELSE IF idx = None \/ it.type # LOGIN THEN <<pick>>
                       ELSE <<pick, c>>
           /\ IF items = <<>>
              THEN /\ msg' = "No items."
                   /\ screen' = <<>>
                   /\ pc' = "Pause"
                   /\ UNCHANGED clipVars
              ELSE IF idx = None
              THEN /\ msg' = "Cancelled."
                   /\ screen' = <<>>
                   /\ pc' = "Pause"
                   /\ UNCHANGED clipVars
              ELSE IF it.type # LOGIN THEN Copy(it.value)
              ELSE IF c = <<"1">> THEN Copy(it.username)
              ELSE IF c = <<"2">>
              THEN \* clip_copy_autoclear up to the sleep
                   /\ autoclear_waits(CLIPBOARD_OK, clear_s) => now + clear_s <= MaxTime
                   /\ clipboard' = clip_copy(CLIPBOARD_OK, clipboard, it.password)
                   /\ msg' = clip_msg(CLIPBOARD_OK)
                   /\ screen' = <<>>
                   /\ IF autoclear_waits(CLIPBOARD_OK, clear_s)
                      THEN pc' = "Sleep" /\ text' = it.password /\ cur' = None
                      ELSE pc' = "Pause" /\ UNCHANGED <<text, cur>>
              ELSE IF c = <<"3">>
              THEN /\ screen' = <<[n |-> idx[1] + 1, type |-> it.type, title |-> it.title,
                                   secret |-> it.password]>>
                   /\ msg' = "Password revealed"
                   /\ pc' = "Pause"
                   /\ UNCHANGED clipVars
              ELSE IF c = <<"4">> THEN Copy(it.url)
              ELSE IF c = <<"5">> THEN Copy(it.note)
              ELSE /\ msg' = "back"
                   /\ screen' = <<>>
                   /\ pc' = "Top"
                   /\ UNCHANGED clipVars
  /\ UNCHANGED <<f, data, now, fileVars, envVars, pw>>

\* clip_copy_autoclear line 408-412: the sleep ends and the clipboard is read
AutoclearPaste ==
  /\ pc = "Sleep"
  /\ now' = now + clear_seconds(CONFIG)
  /\ \E pasted \in BOOLEAN : cur' = IF pasted THEN Some(clipboard) ELSE None
  /\ pc' = "Pasted"
  /\ UNCHANGED <<f, data, last_activity, fileVars, clipboard, text, envVars, pw, choice, typed, msg, screen>>

\* the clear without the comparison
AutoclearClear_Always ==
  /\ pc = "Pasted"
  /\ clipboard' = <<>>
  /\ msg' = "Clipboard cleared"
  /\ pc' = "Pause"
  /\ UNCHANGED <<f, data, last_activity, now, fileVars, text, cur, envVars, pw, choice, typed, screen>>

\* the comparison inverted: the clear is skipped when the text is still there
AutoclearClear_Never ==
  /\ pc = "Pasted"
  /\ IF cur # Some(text)
     THEN clipboard' = <<>> /\ msg' = "Clipboard cleared"
     ELSE UNCHANGED <<clipboard, msg>>
  /\ pc' = "Pause"
  /\ UNCHANGED <<f, data, last_activity, now, fileVars, text, cur, envVars, pw, choice, typed, screen>>

\* clip_copy_autoclear line 413-415: the comparison and the clear
AutoclearClear ==
  /\ pc = "Pasted"
  /\ IF cur = Some(text)
     THEN clipboard' = <<>> /\ msg' = "Clipboard cleared"
     ELSE UNCHANGED <<clipboard, msg>>
  /\ pc' = "Pause"
  /\ UNCHANGED <<f, data, last_activity, now, fileVars, text, cur, envVars, pw, choice, typed, screen>>

\* choice 8 without the return: the message is printed and the loop goes on
LockNow_NoReturn ==
  /\ Chosen("8")
  /\ typed' = <<>>
  /\ pc' = "Pause"
  /\ msg' = "Locked"
  /\ screen' = <<>>
  /\ UNCHANGED <<f, data, now, fileVars, clipVars, envVars, pw>>

\* choice 8
LockNow ==
  /\ Chosen("8")
  /\ typed' = <<>>
  /\ pc' = "Locked"
  /\ f' = None
  /\ data' = None
  /\ msg' = "Locked"
  /\ screen' = <<>>
  /\ UNCHANGED <<now, fileVars, clipVars, envVars, pw>>

\* choice 0 with a save of the collection before the return
Back_Saves ==
  /\ Chosen("0")
  /\ typed' = <<>>
  /\ vaultFile' = vault_save(f[1], data[1], iv)
  /\ iv' = 1 - iv
  /\ pc' = "Locked"
  /\ f' = None
  /\ data' = None
  /\ msg' = "back"
  /\ screen' = <<>>
  /\ UNCHANGED <<now, saltFile, nSalts, clipVars, envVars, pw>>

\* choice 0
Back ==
  /\ Chosen("0")
  /\ typed' = <<>>
  /\ pc' = "Locked"
  /\ f' = None
  /\ data' = None
  /\ msg' = "back"
  /\ screen' = <<>>
  /\ UNCHANGED <<now, fileVars, clipVars, envVars, pw>>

\* any other choice
Invalid ==
  /\ Chosen("9")
  /\ typed' = <<>>
  /\ pc' = "Top"
  /\ msg' = "Invalid."
  /\ screen' = <<>>
  /\ UNCHANGED <<f, data, now, fileVars, clipVars, envVars, pw>>

Next ==
  \/ Tick
  \/ ExternalCopy
  \/ Unlock
  \/ LoopTop
  \/ ViewItems
  \/ ViewByTag
  \/ AddNote
  \/ AddLogin
  \/ Delete
  \/ Search
  \/ CopyMenu
  \/ AutoclearPaste
  \/ AutoclearClear
  \/ LockNow
  \/ Back
  \/ Invalid

Spec == Init /\ [][Next]_vars

\* time.sleep() returns and the lines after it run
LiveSpec == Spec /\ WF_vars(AutoclearPaste) /\ WF_vars(AutoclearClear)

\* ------------------------------------------------------------ properties
autolock_seconds == vault_autolock_minutes(CONFIG) * 60

\* the item list inside the vault file, as it was serialized
StoredItems == IF vaultFile = <<>> THEN <<>> ELSE vaultFile[1].raw[1][2]

Loaded(d) == [ok |-> TRUE, data |-> d]

\* C1: an operation requested at the menu when now - last_activity has
\* reached autolock_seconds is not performed: the session locks and neither
\* the collection, the vault file nor the clipboard changes.
C1_IdleOperationRejected ==
  [][(pc = "Menu" /\ pc' # "Menu" /\ now - last_activity >= autolock_seconds)
       => (pc' = "Locked" /\ f' = None /\ data' = None
           /\ vaultFile' = vaultFile /\ clipboard' = clipboard)]_vars

\* C2: with a vault file saved under password P, a master password prompt
\* answered with anything else leaves the session locked, with no key and
\* no collection held.
C2_WrongPasswordStaysLocked ==
  [][(pc = "Locked" /\ vaultFile # <<>> /\ pw' # vaultFile[1].key.password)
       => (pc' = "Locked" /\ f' = None /\ data' = None)]_vars

C2_Witness ==
  /\ pc = "Locked"
  /\ f = None
  /\ StoredItems # <<>>
  /\ pw # <<>>
  /\ pw # vaultFile[1].key.password
  /\ msg = "Wrong master password (or vault corrupted)."

\* C3: a locked session holds neither key nor collection, and the only step
\* that leaves Locked is an unlock whose key is derived from the typed
\* password and the stored salt and opens the vault file; until then the
\* vault file, the clipboard and the screen stay as they are.
C3_LockedUntilUnlock ==
  [][/\ pc' = "Locked" => (f' = None /\ data' = None)
     /\ pc = "Locked"
          => \/ /\ pc' = "Locked"
                /\ vaultFile' = vaultFile
                /\ clipboard' = clipboard
                /\ screen' = <<>>
             \/ /\ pc' = "Top"
                /\ pw' # <<>>
                /\ f' = Some(derive_key_from_password(pw', saltFile'[1]))
                /\ (vaultFile # <<>> => vaultFile[1].key = f'[1])
                /\ vaultFile' = vaultFile
                /\ clipboard' = clipboard]_vars

C3_Witness ==
  /\ pc = "Locked"
  /\ msg = "Auto-locked"
  /\ StoredItems # <<>>
  /\ f = None

\* C4: saving the collection under the session key and loading the result
\* with the key derived again from the same password and the stored salt
\* gives back the same collection.
C4_RoundTrip ==
  (f # None /\ data # None)
    => vault_load(derive_key_from_password(f[1].password, saltFile[1]),
                  vault_save(f[1], data[1], iv)) = Loaded(data[1])

C4_Witness ==
  /\ pc = "Menu"
  /\ Len(data[1].items) = 2
  /\ data[1].items[1].type # data[1].items[2].type
  /\ \E i \in 1..2 : data[1].items[i].tags # <<>>
  /\ StoredItems = json_dumps(data[1])[1][2]

\* C5: whenever the loop holds a collection, the vault file opens under the
\* session key to exactly that collection, and after a completed add or
\* delete the file exists.
C5_MutationPersisted ==
  /\ data # None => vault_load(f[1], vaultFile) = Loaded(data[1])
  /\ (pc = "Pause" /\ msg \in {"added NOTE", "added LOGIN", "Deleted"}) => vaultFile # <<>>

C5_Witness ==
  /\ pc = "Pause"
  /\ msg = "added LOGIN"
  /\ Len(data[1].items) = 2
  /\ vaultFile # <<>>

Blank(s) == strip(s) = <<>>

\* C6: an add in which a required field is empty (title or text of a note;
\* title, username or password of a login) changes neither the collection
\* nor the vault file.
C6_RejectedAddIsNoOp ==
  [][(/\ pc = "Menu"
      /\ \/ choice' = "3" /\ (Blank(typed'[1]) \/ Blank(typed'[2]))
         \/ choice' = "4" /\ (Blank(typed'[1]) \/ Blank(typed'[2]) \/ Blank(typed'[3])))
       => (data' = data /\ vaultFile' = vaultFile /\ iv' = iv)]_vars

C6_Witness ==
  /\ pc = "Pause"
  /\ choice = "4"
  /\ ~Blank(typed[1]) /\ ~Blank(typed[2]) /\ Blank(typed[3])
  /\ Len(data[1].items) = 1
  /\ StoredItems = json_dumps(data[1])[1][2]

C8_BadPickIsNoOp ==
  [][(/\ pc = "Menu"
      /\ choice' \in {"5", "7"}
      /\ \/ data[1].items = <<>>
         \/ ~isdigit(strip(typed'[1]))
         \/ int(strip(typed'[1])) \notin 1..Len(data[1].items))
       => (data' = data /\ vaultFile' = vaultFile /\ iv' = iv
           /\ clipboard' = clipboard /\ pc' = "Pause")]_vars

C8_Witness ==
  /\ pc = "Pause"
  /\ choice = "5"
  /\ msg = "Cancelled."
  /\ typed = << <<"0">> >>
  /\ Len(data[1].items) = 2

\* C9: when the sleep of clip_copy_autoclear ends, the clipboard is read and
\* not changed; the clear that follows empties the clipboard if what was
\* read is the copied text and leaves the clipboard alone otherwise.
C9_ClearOnlyIfUnchanged ==
  [][/\ (pc = "Sleep" /\ pc' = "Pasted")
          => (clipboard' = clipboard /\ (cur' = None \/ cur' = Some(clipboard)))
     /\ (pc = "Pasted" /\ pc' # "Pasted")
          => (IF cur = Some(text) THEN clipboard' = <<>> ELSE clipboard' = clipboard)]_vars

C9_Witness ==
  /\ pc = "Pause"
  /\ text # <<>>
  /\ cur # None
  /\ cur[1] \in ExtTexts
  /\ cur[1] # text
  /\ clipboard = cur[1]

\* C10: once clip_copy_autoclear sleeps on the copied text, it comes to its
\* end with the clipboard no longer holding that text, unless reading the
\* clipboard failed.
C10_EventuallyCleared ==
  (pc = "Sleep") ~> (pc = "Pause" /\ (clipboard # text \/ cur = None))

C10_Witness ==
  /\ pc = "Pause"
  /\ text # <<>>
  /\ cur = Some(text)
  /\ clipboard = <<>>
  /\ msg = "Clipboard cleared"

\* an operation of the vault menu other than lock and copy
VaultOperation == ViewItems \/ ViewByTag \/ AddNote \/ AddLogin \/ Delete \/ Search

\* C11: while clip_copy_autoclear waits for its delay to elapse, the session
\* accepts another vault operation.
C11_DelayDoesNotBlock ==
  (pc = "Sleep") => ENABLED VaultOperation

\* C12: a pending auto-clear can be superseded: while clip_copy_autoclear
\* waits or compares, a new copy or a lock of the session can start (and
\* would end the wait of the earlier call).
C12_PendingClearCancellable ==
  (pc \in {"Sleep", "Pasted"}) => ENABLED (CopyMenu \/ LockNow)

\* C13: the lock chosen at the menu of an unlocked session always ends in
\* Locked, whatever the idle time and the collection: the key and the
\* collection are dropped and the vault and salt files are left as they are.
C13_ManualLock ==
  [][(pc = "Menu" /\ choice' = "8")
       => (pc' = "Locked" /\ f' = None /\ data' = None
           /\ vaultFile' = vaultFile /\ saltFile' = saltFile)]_vars

C13_Witness ==
  /\ pc = "Locked"
  /\ choice = "8"
  /\ msg = "Locked"
  /\ f = None
  /\ data = None
  /\ Len(StoredItems) = 2
  /\ now = MaxTime

\* C14: once the salt file exists no step rewrites it and
\* vault_get_or_create_salt returns its content, whatever the outcome of the
\* unlock attempts; when it is absent the first call writes the 16 fresh
\* bytes it returns, and the key of that session is derived from them.
C14_SaltStable ==
  [][/\ saltFile # <<>> => saltFile' = saltFile
     /\ saltFile' # <<>> => vault_get_or_create_salt(saltFile', nSalts') = saltFile'[1]
     /\ (saltFile = <<>> /\ saltFile' # <<>>)
          => /\ Len(saltFile'[1]) = 16
             /\ saltFile'[1] = vault_get_or_create_salt(saltFile, nSalts)
     /\ (pc = "Locked" /\ pc' = "Top") => f'[1].salt = saltFile'[1]]_vars

C14_Witness ==
  /\ pc = "Locked"
  /\ msg = "unlock cancelled"
  /\ vaultFile # <<>>
  /\ vaultFile[1].key.salt = saltFile[1]
  /\ Len(saltFile[1]) = 16
  /\ nSalts = 1

\* ------------------------------------------------------------ faults
\* a key that no password derives: what does not authenticate under any key
NoKey == [password |-> <<>>, salt |-> <<>>]

\* bytes that are no Fernet token: an empty, truncated or tampered file
Garbage == [key |-> NoKey, iv |-> 0, raw |-> <<>>]

\* JSON text that is an object without "items"
OtherDocument == << <<"notes", <<>> >> >>

\* the vault file is damaged or replaced while the program does not use it
\* (at the master password prompt or in a pause() between two loads): by
\* bytes that are no token, or by a token of the vault's key that holds
\* another document
Corrupt ==
  /\ pc \in {"Locked", "Pause"}
  /\ vaultFile # <<>>
  /\ vaultFile[1] # Garbage
  /\ \/ vaultFile' = <<Garbage>>
     \/ /\ vaultFile[1].raw # OtherDocument
        /\ vaultFile' = <<fernet_encrypt(vaultFile[1].key, OtherDocument, vaultFile[1].iv)>>
  /\ UNCHANGED <<pc, f, data, last_activity, now, saltFile, iv, nSalts, clipVars, envVars,
                 pw, choice, typed, msg, screen>>

\* vault_save line 958-959 of an accepted add or delete: the process dies
\* after open(vault_path, "wb") has truncated the file and before the token
\* is written
SaveInterrupted ==
  /\ Chosen("3") \/ Chosen("4") \/ Chosen("5")
  /\ choice' \in {"3", "4"} => Len(items) < MaxItems
  /\ choice' = "5" => items # <<>>
  /\ vaultFile' = <<Garbage>>
  /\ pc' = "Crashed"
  /\ f' = None
  /\ data' = None
  /\ msg' = "killed in vault_save"
  /\ typed' = <<>>
  /\ screen' = <<>>
  /\ UNCHANGED <<now, saltFile, iv, nSalts, clipVars, envVars, pw>>

FaultNext == Next \/ Corrupt \/ SaveInterrupted

FaultSpec == Init /\ [][FaultNext]_vars

\* the token holds an item document
Intact(token) == \E i \in 1..Len(token.raw) : token.raw[i][1] = "items"

\* C15: while the vault file holds something that is not an item document
\* under its key, an unlock attempt leaves the session locked, the load at
\* the top of the loop ends the session without a collection, and no save
\* replaces the file.
C15_CorruptBlobNeverLoads ==
  [][(vaultFile # <<>> /\ ~Intact(vaultFile[1]))
       => /\ pc = "Locked" => pc' = "Locked"
          /\ (pc \in {"Top", "Pause"} /\ pc' # pc)
               => (pc' \in {"Locked", "Crashed"} /\ data' = None)
          /\ pc = "Menu" => vaultFile' = vaultFile]_vars

\* C16: a save that is interrupted leaves the vault file holding the
\* complete blob it held before.
C16_InterruptedSaveKeepsBlob ==
  [][(pc = "Menu" /\ pc' = "Crashed") => vaultFile' = vaultFile]_vars

\* C17: with no vault file, a master password prompt answered with any
\* non-empty password unlocks, the loop loads the empty collection, and the
\* step that creates the vault file is an accepted add that leaves in it
\* exactly the one item added.
C17_Bootstrap ==
  [][/\ (pc = "Locked" /\ vaultFile = <<>> /\ pw' # <<>>) => (pc' = "Top" /\ f' # None)
     /\ (pc' = "Menu" /\ vaultFile' = <<>>) => data' = Some(EmptyData)
     /\ (vaultFile = <<>> /\ vaultFile' # <<>>)
          => /\ choice' \in {"3", "4"}
             /\ Len(data'[1].items) = 1
             /\ vault_load(f[1], vaultFile') = Loaded(data'[1])]_vars

C17_Witness ==
  /\ pc = "Pause"
  /\ choice = "3"
  /\ msg = "added NOTE"
  /\ Len(StoredItems) = 1
  /\ loads_item(StoredItems[1]) = data[1].items[1]
  /\ iv = 1

\* ------------------------------------------------------------ the clipboard helpers on their own
CopyTexts == {<<"u">>, <<"s", "e", "c">>, <<"v">>, <<"b">>}

\* the delays a caller may pass: negative, zero, and the configured one
SecondsInputs == {-1, 0, clear_seconds(CONFIG)}

\* clip_copy(t) called and returned
CallCopy ==
  /\ pc = "Locked"
  /\ \E t \in CopyTexts :
       /\ typed' = <<t>>
       /\ clipboard' = clip_copy(CLIPBOARD_OK, clipboard, t)
  /\ choice' = "clip_copy"
  /\ msg' = clip_msg(CLIPBOARD_OK)
  /\ screen' = <<>>
  /\ pc' = "Pause"
  /\ UNCHANGED <<f, data, last_activity, now, fileVars, text, cur, envVars, pw>>

\* clip_copy_autoclear(t, seconds) called: up to the sleep, or to the return
\* when there is none
CallCopyAutoclear ==
  /\ pc = "Locked"
  /\ \E t \in CopyTexts, seconds \in SecondsInputs :
       /\ autoclear_waits(CLIPBOARD_OK, seconds) => now + seconds <= MaxTime
       /\ typed' = <<t>>
       /\ screen' = <<[seconds |-> seconds]>>
       /\ clipboard' = clip_copy(CLIPBOARD_OK, clipboard, t)
       /\ IF autoclear_waits(CLIPBOARD_OK, seconds)
          THEN pc' = "Sleep" /\ text' = t /\ cur' = None
          ELSE pc' = "Pause" /\ UNCHANGED <<text, cur>>
  /\ choice' = "clip_copy_autoclear"
  /\ msg' = clip_msg(CLIPBOARD_OK)
  /\ UNCHANGED <<f, data, last_activity, now, fileVars, envVars, pw>>

\* the helper has returned and its caller goes on
ClipReturn ==
  /\ pc = "Pause"
  /\ pc' = "Locked"
  /\ choice' = ""
  /\ typed' = <<>>
  /\ screen' = <<>>
  /\ text' = <<>>
  /\ cur' = None
  /\ UNCHANGED <<f, data, last_activity, now, fileVars, clipboard, envVars, pw, msg>>

ClipNext ==
  \/ Tick
  \/ ExternalCopy
  \/ CallCopy
  \/ CallCopyAutoclear
  \/ AutoclearPaste
  \/ AutoclearClear
  \/ ClipReturn

ClipSpec == Init /\ [][ClipNext]_vars

\* C18: clip_copy_autoclear(text, seconds) with seconds <= 0 leaves the
\* clipboard as clip_copy(text) does and returns at once with no clear to
\* come; the program empties the clipboard only at the end of a wait, which
\* only a call with a positive delay starts.
C18_NoClearWithoutDelay ==
  [][/\ (pc = "Locked" /\ choice' = "clip_copy_autoclear" /\ screen'[1].seconds <= 0)
          => /\ clipboard' = clip_copy(CLIPBOARD_OK, clipboard, typed'[1])
             /\ pc' = "Pause"
             /\ text' = <<>>
     /\ (clipboard' = <<>> /\ clipboard # <<>>)
          => (pc = "Pasted" /\ screen[1].seconds > 0)]_vars

C18_Witness ==
  /\ pc = "Pause"
  /\ choice = "clip_copy_autoclear"
  /\ screen = <<[seconds |-> 0]>>
  /\ CLIPBOARD_OK
  /\ clipboard = typed[1]
  /\ now = MaxTime

\* ------------------------------------------------------------ settings_menu
ClearInputs == {<<"0">>, <<"x">>}

\* settings_menu choice 2, reached from the main menu while the vault is locked
SetClipboardClearSeconds ==
  /\ pc = "Locked"
  /\ \E vIn \in ClearInputs :
       LET v == strip(vIn)
       IN  /\ typed' = <<vIn>>
           /\ IF isdigit(v)
              THEN /\ CONFIG' = [CONFIG EXCEPT !.vault_clipboard_clear_seconds =
                                   IF int(v) > 0 THEN int(v) ELSE 0]
                   /\ msg' = "Saved"
              ELSE /\ msg' = "Cancelled / invalid."
                   /\ UNCHANGED CONFIG
  /\ screen' = <<>>
  /\ UNCHANGED <<pc, f, data, last_activity, now, fileVars, clipVars, CLIPBOARD_OK, pw, choice>>

SettingsNext == Next \/ SetClipboardClearSeconds

SettingsSpec == Init /\ [][SettingsNext]_vars

\* C19: with vault_clipboard_clear_seconds set to 0, copying the password of
\* a login does not start a wait for a clear: vault_copy_menu returns to its
\* pause() with the password on the clipboard.
C19_ZeroDisablesAutoclear ==
  [][(pc = "Menu" /\ CONFIG.vault_clipboard_clear_seconds = 0 /\ choice' = "7")
       => pc' # "Sleep"]_vars

\* the secret of an item: the password of a login, the value of a note
Secret(it) == IF it.type = LOGIN THEN it.password ELSE it.value

\* C20: every line of a listing (all items, items by tag, search results)
\* shows the secret of the item it lists through mask_secret only.
C20_ListingsMasked ==
  (pc = "Pause" /\ choice \in {"1", "2", "6"})
    => \A k \in 1..Len(screen) :
         \E i \in 1..Len(data[1].items) :
           /\ screen[k].title = data[1].items[i].title
           /\ screen[k].type = data[1].items[i].type
           /\ screen[k].secret = mask_secret(Secret(data[1].items[i]))

\* ------------------------------------------------------------ mask_secret and parse_tags on their own
Alphabet == {"W", "w", "x", ",", " "}

Texts == UNION {[1..n -> Alphabet] : n \in 0..MaxLen}

\* any text may be the argument
PureInit ==
  /\ pc = "Locked"
  /\ f = None
  /\ data = None
  /\ last_activity = 0
  /\ now = 0
  /\ vaultFile = <<>>
  /\ saltFile = <<>>
  /\ iv = 0
  /\ nSalts = 0
  /\ clipboard = <<>>
  /\ CLIPBOARD_OK \in BOOLEAN
  /\ CONFIG \in [vault_autolock_minutes : {1}, vault_clipboard_clear_seconds : ClearSecondsValues]
  /\ text = <<>>
  /\ cur = None
  /\ pw = <<>>
  /\ choice = ""
  /\ typed \in {<<s>> : s \in Texts}
  /\ msg = "start"
  /\ screen = <<>>

\* mask_secret(typed[1]) called and returned
MaskSecret ==
  /\ choice = ""
  /\ choice' = "mask_secret"
  /\ screen' = <<[secret |-> mask_secret(typed[1])]>>
  /\ UNCHANGED <<pc, f, data, last_activity, now, fileVars, clipVars, envVars, pw, typed, msg>>

\* parse_tags(typed[1]) called and returned
ParseTags ==
  /\ choice = ""
  /\ choice' = "parse_tags"
  /\ screen' = <<[tags |-> parse_tags(typed[1])]>>
  /\ UNCHANGED <<pc, f, data, last_activity, now, fileVars, clipVars, envVars, pw, typed, msg>>

PureNext == MaskSecret \/ ParseTags

PureSpec == PureInit /\ [][PureNext]_vars

\* C21: mask_secret(s) is as long as s; it is empty for the empty text, all
\* mask characters when len(s) <= 2, and otherwise the first two characters
\* of s followed by len(s) - 2 mask characters.
C21_MaskShape ==
  (choice = "mask_secret")
    => LET s == typed[1]
           m == screen[1].secret
       IN  /\ Len(m) = Len(s)
           /\ s = <<>> => m = <<>>
           /\ Len(s) <= 2 => \A i \in 1..Len(m) : m[i] = "*"
           /\ Len(s) > 2 => /\ SubSeq(m, 1, 2) = SubSeq(s, 1, 2)
                            /\ \A i \in 3..Len(m) : m[i] = "*"

C21_Witness ==
  /\ choice = "mask_secret"
  /\ typed = << <<"W", "w", ",">> >>
  /\ screen = <<[secret |-> <<"W", "w", "*">>]>>

\* the field values of an item, its type among them, lower-cased
FieldValues(it) ==
  {lower(it[k]) : k \in (DOMAIN it) \ {"tags"}}
    \cup {lower(it.tags[j]) : j \in 1..Len(it.tags)}

\* the names of the keys of an item as json.dumps writes them
FieldNames(it) == {KeyText(k) : k \in DOMAIN it}

\* the items one of whose field values contains the query
ValueHits(its, q) ==
  IF q = <<>> THEN <<>>
  ELSE SelectSeq(its, LAMBDA it : \E v \in FieldValues(it) : IsSubstring(q, v))

\* the items one of whose field values or key names contains the query
TextHits(its, q) ==
  IF q = <<>> THEN <<>>
  ELSE SelectSeq(its, LAMBDA it :
         \E v \in FieldValues(it) \cup FieldNames(it) : IsSubstring(q, v))

\* C22 as claimed: a search lists exactly the items one of whose field
\* values contains the query, case-insensitively, in storage order, and
\* changes neither the collection nor the vault file.
C22_SearchByFieldValues ==
  [][(pc = "Menu" /\ choice' = "6")
       => /\ screen' = vault_view_items(ValueHits(data[1].items, lower(strip(typed'[1]))), <<>>)
          /\ data' = data
          /\ vaultFile' = vaultFile]_vars

\* C22, amended: a search with an empty or blank query lists nothing; with
\* any other query it lists exactly the items whose JSON text contains the
\* query case-insensitively, the names of the keys counting as much as the
\* values, in storage order, and it changes neither the collection nor the
\* vault file.
C22_SearchBySerializedText ==
  [][(pc = "Menu" /\ choice' = "6")
       => /\ screen' = vault_view_items(TextHits(data[1].items, lower(strip(typed'[1]))), <<>>)
          /\ Blank(typed'[1]) => screen' = <<>>
          /\ data' = data
          /\ vaultFile' = vaultFile]_vars

C22_Witness ==
  /\ pc = "Pause"
  /\ choice = "6"
  /\ typed = << <<"B">> >>
  /\ Len(data[1].items) = 2
  /\ Len(screen) = 1
  /\ screen[1].title = <<"b">>

Separator(c) == c \in {",", " "}

\* where the words of s start and end: the maximal runs without a separator
WordSpans(s) ==
  {ab \in (1..Len(s)) \X (1..Len(s)) :
     /\ ab[1] <= ab[2]
     /\ \A i \in ab[1]..ab[2] : ~Separator(s[i])
     /\ ab[1] = 1 \/ Separator(s[ab[1] - 1])
     /\ ab[2] = Len(s) \/ Separator(s[ab[2] + 1])}

\* where the tag t first occurs in s
FirstOccurrence(s, t) ==
  CHOOSE a \in 1..Len(s) :
    /\ \E ab \in WordSpans(s) : ab[1] = a /\ lower(SubSeq(s, ab[1], ab[2])) = t
    /\ \A ab \in WordSpans(s) : lower(SubSeq(s, ab[1], ab[2])) = t => a <= ab[1]

\* C23: parse_tags(s) holds the words of s between commas and blanks,
\* lower-cased, each once, in the order of their first occurrence: no tag is
\* empty, holds a separator or an upper-case letter, or occurs twice; and
\* parsing the tags joined again gives the same list.
C23_TagsNormalized ==
  (choice = "parse_tags")
    => LET s == typed[1]
           tags == screen[1].tags
       IN  /\ \A j \in 1..Len(tags) :
                /\ tags[j] # <<>>
                /\ \A i \in 1..Len(tags[j]) : ~Separator(tags[j][i])
                /\ tags[j] = lower(tags[j])
           /\ \A i, j \in 1..Len(tags) : i # j => tags[i] # tags[j]
           /\ {tags[j] : j \in 1..Len(tags)}
                = {lower(SubSeq(s, ab[1], ab[2])) : ab \in WordSpans(s)}
           /\ \A i, j \in 1..Len(tags) :
                i < j => FirstOccurrence(s, tags[i]) < FirstOccurrence(s, tags[j])
           /\ parse_tags(format_tags(tags)) = tags

C23_Witness ==
  /\ choice = "parse_tags"
  /\ typed = << <<"W", ",", "w">> >>
  /\ screen = <<[tags |-> << <<"w">> >>]>>

\* the step chose copy / reveal, picked an item and asked for one of its copies
CopyAsked ==
  /\ pc = "Menu"
  /\ choice' = "7"
  /\ vault_pick_item(data[1].items, typed'[1]) # None
  /\ LET it == data[1].items[vault_pick_item(data[1].items, typed'[1])[1] + 1]
     IN  it.type = LOGIN => typed'[2] \in {<<"1">>, <<"2">>, <<"4">>, <<"5">>}

\* the step chose copy / reveal, picked a login and asked to see its password
RevealAsked ==
  /\ pc = "Menu"
  /\ choice' = "7"
  /\ vault_pick_item(data[1].items, typed'[1]) # None
  /\ data[1].items[vault_pick_item(data[1].items, typed'[1])[1] + 1].type = LOGIN
  /\ typed'[2] = <<"3">>

\* C24: without a clipboard, a copy (with or without auto-clear) says so
\* with a message that is not the one of a successful copy, leaves the
\* clipboard as it is, starts no wait and keeps the session unlocked with
\* its collection; a reveal still shows the password.
C24_ClipboardUnavailable ==
  [][/\ (CopyAsked /\ ~CLIPBOARD_OK)
          => /\ msg' = "Clipboard not available."
             /\ msg' # clip_msg(TRUE)
             /\ clipboard' = clipboard
             /\ pc' = "Pause"
             /\ f' = f /\ data' = data
     /\ (CopyAsked /\ CLIPBOARD_OK) => msg' = clip_msg(TRUE)
     /\ (RevealAsked /\ ~CLIPBOARD_OK)
          => /\ Len(screen') = 1
             /\ screen'[1].secret
                  = data[1].items[vault_pick_item(data[1].items, typed'[1])[1] + 1].password
             /\ pc' = "Pause"]_vars

C24_Witness ==
  /\ ~CLIPBOARD_OK
  /\ pc = "Pause"
  /\ choice = "7"
  /\ typed = << <<"1">>, <<"2">> >>
  /\ msg = "Clipboard not available."
  /\ clipboard = <<>>
  /\ f # None

\* the items of the vault file, decoded
DecodedItems == [i \in 1..Len(StoredItems) |-> loads_item(StoredItems[i])]

\* C25: an accepted add appends the new item and leaves the items before it
\* as they were; a delete leaves what remains as it was, in order; a load
\* gives back the items as they were saved, created_at included; and no
\* other step changes an item of the collection held or of the vault file.
C25_OtherItemsUntouched ==
  [][/\ (pc = "Menu" /\ choice' \in {"3", "4"} /\ data' # data)
          => /\ Len(data'[1].items) = Len(data[1].items) + 1
             /\ SubSeq(data'[1].items, 1, Len(data[1].items)) = data[1].items
     /\ (pc = "Menu" /\ choice' = "5" /\ data' # data)
          => \E n \in 1..Len(data[1].items) :
               data'[1].items = SubSeq(data[1].items, 1, n - 1)
                                  \o SubSeq(data[1].items, n + 1, Len(data[1].items))
     /\ (pc = "Menu" /\ choice' \notin {"3", "4", "5"}) => data' \in {data, None}
     /\ pc' = "Menu" => data'[1].items = DecodedItems'
     /\ (pc = "Pause" /\ pc' = "Menu") => data' = data
     /\ vaultFile' # vaultFile => DecodedItems' = data'[1].items
     /\ pc # "Menu" => vaultFile' = vaultFile]_vars

C25_Witness ==
  /\ pc = "Pause"
  /\ msg = "added LOGIN"
  /\ Len(data[1].items) = 2
  /\ data[1].items[1].type = NOTE
  /\ data[1].items[1].created_at = <<"0">>
  /\ data[1].items[2].created_at = <<"6", "0">>
  /\ DecodedItems = data[1].items

\* C26: while a session is unlocked with password P and the vault file
\* exists, the file opens under the key derived from P and the stored salt;
\* after an add or a delete it holds the collection the mutation left; its
\* key never changes; and an unlock with P from Locked succeeds and the load
\* that follows returns what the file holds.
C26_FileStaysDecryptable ==
  [][/\ (f' # None /\ vaultFile' # <<>>)
          => vault_load(derive_key_from_password(f'[1].password, saltFile'[1]), vaultFile')
               = Loaded([items |-> DecodedItems'])
     /\ (pc = "Menu" /\ vaultFile # <<>> /\ vaultFile' # vaultFile)
          => DecodedItems' = data'[1].items
     /\ (vaultFile # <<>> /\ vaultFile' # <<>>) => vaultFile'[1].key = vaultFile[1].key
     /\ (pc = "Locked" /\ vaultFile # <<>> /\ pw' = vaultFile[1].key.password)
          => (pc' = "Top" /\ f' = Some(vaultFile[1].key))
     /\ (pc = "Top" /\ pc' = "Menu") => data' = Some([items |-> DecodedItems])]_vars

C26_Witness ==
  /\ pc = "Top"
  /\ msg = "unlocked"
  /\ pw = <<"q">>
  /\ vaultFile # <<>>
  /\ f = Some(derive_key_from_password(pw, saltFile[1]))
  /\ vaultFile[1].key = f[1]
  /\ Len(DecodedItems) = 2
  /\ DecodedItems[1].created_at # DecodedItems[2].created_at

\* C27: whatever is written to the clipboard from outside while
\* clip_copy_autoclear sleeps, reads or compares is never emptied by its
\* clear.
C27_ClearIsAtomic ==
  [][(pc \in {"Sleep", "Pasted"} /\ clipboard \in ExtTexts /\ clipboard # text)
       => clipboard' # <<>>]_vars

\* C28: in a listing (all items, items by tag, search results) the number
\* shown with an item is the position of that item in the collection, the
\* number vault_pick_item takes for it.
C28_ListingNumberIsPosition ==
  (pc = "Pause" /\ choice \in {"1", "2", "6"})
    => \A k \in 1..Len(screen) :
         /\ screen[k].n \in 1..Len(data[1].items)
         /\ vault_pick_item(data[1].items, now_str(screen[k].n)) = Some(screen[k].n - 1)
         /\ view_line(screen[k].n, data[1].items[screen[k].n]) = screen[k]

\* C29: the only steps that change the vault file are an accepted add and a
\* delete with a valid pick; unlock attempts, listings, searches, copies,
\* reveals, locks, the idle lock, invalid choices and rejected adds and
\* deletes leave it, and the IV of the next token, as they are.
C29_OnlyMutationsWrite ==
  [][(vaultFile' # vaultFile \/ iv' # iv)
       => /\ pc = "Menu"
          /\ data' # data
          /\ \/ choice' = "3" /\ msg' = "added NOTE"
             \/ choice' = "4" /\ msg' = "added LOGIN"
             \/ choice' = "5" /\ msg' = "Deleted"]_vars

C29_Witness ==
  /\ pc = "Locked"
  /\ choice = "0"
  /\ msg = "back"
  /\ Len(StoredItems) = 1
  /\ iv = 1
  /\ clipboard # <<>>

====
